---- MODULE Spec2Model ----
(***************************************************************************)
(* A model of src/SMPC_ugv.py: the stochastic MPC planner of a ground      *)
(* vehicle (class SMPC_UGV_Planner) and the cycle loop of __main__.        *)
(*                                                                         *)
(* Lengths are in tenths of the source's unit (the vertex 5.2 is 52), so   *)
(* every quantity of the model is an integer or an exact fraction.         *)
(* A fraction is a pair <<numerator, denominator>> in lowest terms with a  *)
(* positive denominator; a 2x2 matrix is the row-major tuple               *)
(* <<m00, m01, m10, m11>> of fractions, the layout in which the source     *)
(* reads the flattened 4-vector covariances.                               *)
(***************************************************************************)
EXTENDS Integers, Sequences, FiniteSets, TLC

VARIABLES
    pc,                 \* position of the program: u1 / u2 / finish / loop / done / failed / error
    k,                  \* index of the loop of init_constraints
    P12,                \* self.P12
    first_contact,      \* self.first_contact
    r1_pos_cov,         \* value of the parameter self.r1_pos_cov, one matrix per column
    r2_pos_cov,         \* value of the parameter self.r2_pos_cov
    R12,                \* self.relative_measurement_noise_cov
    maxComm_distance,   \* self.maxComm_distance
    branch,             \* branch[j]: the branch update_2 took for step j-1, and whether S was singular
    ret,                \* the value the last call of update_1/update_2 returned
    obsIn,              \* the obstacles handed to the constructor
    obs,                \* self.obs after init_obstacles
    cons,               \* the chance constraints of the assembled problem
    lb_state, ub_state, \* box bounds on the position
    curr_pos,           \* curr_pos of __main__
    r1_pos,             \* value of the parameter self.r1_pos
    flag_const,         \* value of the parameter self.flag_const
    X,                  \* sol.value(SMPC.X) of the last solve
    flag,               \* sol.value(SMPC.flag) of the last solve
    solved,             \* number of solves that returned, counted 0, 1, 2 = "two or more"
    contact_seen        \* history: some returned trajectory had a step in range

vars == <<pc, k, P12, first_contact, r1_pos_cov, r2_pos_cov, R12, maxComm_distance,
          branch, ret, obsIn, obs, cons, lb_state, ub_state, curr_pos, r1_pos,
          flag_const, X, flag, solved, contact_seen>>

fusionVars == <<P12, first_contact, r1_pos_cov, r2_pos_cov, branch, ret, k>>
inputVars == <<R12, maxComm_distance, obsIn, lb_state, ub_state>>
driverVars == <<curr_pos, r1_pos, flag_const, X, flag, solved, contact_seen>>

----------------------------------------------------------------------------
(* Bounds of the model *)

\* mpc_horizon handed to the constructor (4 in __main__)
N == 4

\* entries of the covariance matrices the fusion functions are applied to
MaxCov == 1

\* horizon steps taken from each of those inputs
MaxFusionSteps == 1

----------------------------------------------------------------------------
(* Exact fractions *)

Abs(x) == IF x < 0 THEN -x ELSE x

RECURSIVE GCD(_, _)
GCD(a, b) == IF b = 0 THEN a ELSE GCD(b, a % b)

Rat(n, d) ==
    LET g == GCD(Abs(n), Abs(d))
        s == IF d < 0 THEN -1 ELSE 1
    IN  <<(s * n) \div g, (s * d) \div g>>

RInt(i) == <<i, 1>>
RNeg(p) == <<-p[1], p[2]>>
\* sums over the least common denominator and products with the common
\* factors cancelled first, to keep the intermediate integers small
RAdd(p, q) ==
    LET g == GCD(p[2], q[2])
    IN  Rat(p[1] * (q[2] \div g) + q[1] * (p[2] \div g), (p[2] \div g) * q[2])
RSub(p, q) == RAdd(p, RNeg(q))
RMul(p, q) ==
    LET a == Rat(p[1], q[2])
        b == Rat(q[1], p[2])
    IN  <<a[1] * b[1], a[2] * b[2]>>
RDiv(p, q) == RMul(p, Rat(q[2], q[1]))

----------------------------------------------------------------------------
(* 2x2 matrices and 2-vectors of fractions *)

MatI(a, b, c, d) == <<RInt(a), RInt(b), RInt(c), RInt(d)>>
Zero2 == MatI(0, 0, 0, 0)
Eye2 == MatI(1, 0, 0, 1)

MAdd(A, B) == <<RAdd(A[1], B[1]), RAdd(A[2], B[2]), RAdd(A[3], B[3]), RAdd(A[4], B[4])>>
MSub(A, B) == <<RSub(A[1], B[1]), RSub(A[2], B[2]), RSub(A[3], B[3]), RSub(A[4], B[4])>>
MT(A) == <<A[1], A[3], A[2], A[4]>>

\* casadi mtimes on 2x2 matrices
mtimes(A, B) ==
    << RAdd(RMul(A[1], B[1]), RMul(A[2], B[3])),
       RAdd(RMul(A[1], B[2]), RMul(A[2], B[4])),
       RAdd(RMul(A[3], B[1]), RMul(A[4], B[3])),
       RAdd(RMul(A[3], B[2]), RMul(A[4], B[4])) >>

\* casadi mtimes of a 2x2 matrix and a 2-vector
mtimesV(A, v) ==
    << RAdd(RMul(A[1], v[1]), RMul(A[2], v[2])),
       RAdd(RMul(A[3], v[1]), RMul(A[4], v[2])) >>

Det(A) == RSub(RMul(A[1], A[4]), RMul(A[2], A[3]))

\* np.linalg.inv raises LinAlgError("Singular matrix") on a singular matrix
Singular(S) == Det(S) = RInt(0)

linalg_inv(S) ==
    LET d == Det(S)
    IN  <<RDiv(S[4], d), RDiv(RNeg(S[2]), d), RDiv(RNeg(S[3]), d), RDiv(S[1], d)>>

\* a fallback that substitutes the identity instead of zeros
S_inv_of_Eye(S) == IF Singular(S) THEN Eye2 ELSE linalg_inv(S)

\* the try/except around np.linalg.inv in update_2 and update_3: both arms of
\* the handler assign np.zeros((2, 2))
S_inv_of(S) == IF Singular(S) THEN Zero2 ELSE linalg_inv(S)

\* P11_update is written to the parameter entry by entry with the linear
\* (column-major) index of the matrix, and read back row by row
StoreCov(U) == <<U[1], U[3], U[2], U[4]>>

----------------------------------------------------------------------------
(* The fusion functions *)

\* the values np.random.multivariate_normal([0,0], cov) can sample, cut to a
\* few points: a coordinate of variance 0 is sampled as 0
NoiseVals == {<<0, 0>>, <<1, 0>>, <<0, 1>>}
NoiseOf(cov) ==
    { n \in NoiseVals : /\ (cov[1] = RInt(0) => n[1] = 0)
                        /\ (cov[4] = RInt(0) => n[2] = 0) }
RVec(n) == <<RInt(n[1]), RInt(n[2])>>

\* update_1: the nominal next state plus a noise sample; nothing is stored.
\* The value returned is given as its offset from next_state_nominal(x, u).
update_1(noise) == [fn |-> "update_1", off |-> RVec(noise), singular |-> FALSE]

\* update_3, the first-contact update
update_3_S(P11, P22, R) == MAdd(MAdd(P11, P22), R)
update_3_K(P11, P22, R) == mtimes(P11, S_inv_of(update_3_S(P11, P22, R)))
update_3_P11(P11, P22, R) ==
    MSub(P11, mtimes(mtimes(P11, S_inv_of(update_3_S(P11, P22, R))), P11))
update_3_P12(P11, P22, R) ==
    mtimes(mtimes(P11, S_inv_of(update_3_S(P11, P22, R))), P22)
update_3(P11, P22, R, noise) ==
    \* z - (xHat_r1 - xHat_r2) is the noise sample, so the fused position is
    \* the nominal prediction plus K * noise
    [fn |-> "update_3",
     off |-> mtimesV(update_3_K(P11, P22, R), RVec(noise)),
     singular |-> Singular(update_3_S(P11, P22, R))]

\* the else branch of update_2, the steady-contact update
update_2_S(P11, P22, R, P12o) ==
    MAdd(MAdd(MSub(MSub(P11, P12o), MT(P12o)), P22), R)
update_2_K(P11, P22, R, P12o) ==
    mtimes(MSub(P11, P12o), S_inv_of(update_2_S(P11, P22, R, P12o)))
update_2_P11(P11, P22, R, P12o) ==
    MSub(P11, mtimes(mtimes(MSub(P11, P12o), S_inv_of(update_2_S(P11, P22, R, P12o))),
                     MSub(P11, MT(P12o))))
\* a steady-contact update that keeps the stored P12 when S is singular
update_2_P12_Keep(P11, P22, R, P12o) ==
    IF Singular(update_2_S(P11, P22, R, P12o)) THEN P12o
    ELSE mtimes(mtimes(P11, linalg_inv(update_2_S(P11, P22, R, P12o))), P22)

update_2_P12(P11, P22, R, P12o) ==
    mtimes(mtimes(P11, S_inv_of(update_2_S(P11, P22, R, P12o))), P22)
update_2_else(P11, P22, R, P12o, noise) ==
    [fn |-> "update_2",
     off |-> mtimesV(update_2_K(P11, P22, R, P12o), RVec(noise)),
     singular |-> Singular(update_2_S(P11, P22, R, P12o))]

\* update_2 dispatches on self.first_contact
TakesUpdate3(fc) == fc = FALSE

\* an update_1 that returns the contact state to "no contact"
ContactAfterUpdate1_Reset(fc) == FALSE

\* update_1 assigns neither self.first_contact nor self.P12
ContactAfterUpdate1(fc) == fc

----------------------------------------------------------------------------
(* init_constraints: the loop over the horizon steps.  Python evaluates the  *)
(* arguments of if_else before the call, so every iteration calls update_1   *)
(* and then update_2, whatever the distance will be when the problem is      *)
(* solved.                                                                   *)

\* the call self.update_1(X[:,k], U[:,k], k) of iteration k
CallUpdate1 ==
    /\ pc = "u1"
    /\ k <= N - 2
    /\ \E noise \in NoiseOf(r1_pos_cov[k]) : ret' = update_1(noise)
    /\ first_contact' = ContactAfterUpdate1(first_contact)
    /\ pc' = "u2"
    /\ UNCHANGED <<k, P12, r1_pos_cov, r2_pos_cov, branch>>
    /\ UNCHANGED <<inputVars, obs, cons, driverVars>>

\* the call self.update_2(X[:,k], U[:,k], k) of iteration k, and the end of
\* the iteration
CallUpdate2 ==
    /\ pc = "u2"
    /\ LET P11 == r1_pos_cov[k + 1]
           P22 == r2_pos_cov[k + 1]
       IN  \E noise \in NoiseOf(r1_pos_cov[k]) :
             IF TakesUpdate3(first_contact)
             THEN /\ ret' = update_3(P11, P22, R12, noise)
                  /\ P12' = update_3_P12(P11, P22, R12)
                  /\ r1_pos_cov' = [r1_pos_cov EXCEPT
                                      ![k + 1] = StoreCov(update_3_P11(P11, P22, R12))]
                  /\ first_contact' = TRUE
             ELSE /\ ret' = update_2_else(P11, P22, R12, P12, noise)
                  /\ P12' = update_2_P12(P11, P22, R12, P12)
                  /\ r1_pos_cov' = [r1_pos_cov EXCEPT
                                      ![k + 1] = StoreCov(update_2_P11(P11, P22, R12, P12))]
                  /\ first_contact' = first_contact
    /\ branch' = Append(branch, [fn |-> ret'.fn, singular |-> ret'.singular])
    /\ k' = k + 1
    /\ pc' = IF k + 1 <= N - 2 THEN "u1" ELSE "finish"
    /\ UNCHANGED r2_pos_cov
    /\ UNCHANGED <<inputVars, obs, cons, driverVars>>

----------------------------------------------------------------------------
(* init_obstacles: the Obstacle Preprocessor *)

\* scipy.stats.linregress through two points: <<slope, intercept>>.  When
\* the two x values are equal the division by the variance of x gives nan
\* (where linregress does not raise, see LinregressRaises)
NaN == "nan"
linregress(p1, p2) ==
    IF p1[1] = p2[1] THEN <<NaN, NaN>>
    ELSE LET slope == Rat(p1[2] - p2[2], p1[1] - p2[1])
         IN  <<slope, RSub(RInt(p1[2]), RMul(slope, RInt(p1[1])))>>

\* Releases of scipy differ on equal x values: the later ones raise
\* ValueError, the earlier ones return nan.  strict tells which one is
\* installed.
LinregressRaises(p1, p2, strict) == strict /\ p1[1] = p2[1]

\* a = V / sqrt(sum(V ** 2)) with V = [dy, dx]: the vector v / sqrt(n2)
EdgeNormal(p1, p2) ==
    LET dx == p1[1] - p2[1]
        dy == p1[2] - p2[2]
    IN  [v |-> <<dy, dx>>, n2 |-> dy * dy + dx * dx]

\* the edges the two nested loops visit: vertex j to vertex j+1 for
\* j = 0..n-2 and, inside the last iteration, the last vertex to the first
EdgeEnds(vertices) ==
    LET n == Len(vertices)
    IN  IF n < 2 THEN <<>>
        ELSE [j \in 1..n |-> <<vertices[j], vertices[(j % n) + 1]>>]

Preprocessed(o) ==
    LET e == EdgeEnds(o.vertices)
    IN  [vertices |-> o.vertices, risk |-> o.risk,
         a |-> [j \in 1..Len(e) |-> EdgeNormal(e[j][1], e[j][2])],
         intercepts |-> [j \in 1..Len(e) |-> linregress(e[j][1], e[j][2])[2]]]

Unprocessed(o) ==
    [vertices |-> o.vertices, risk |-> o.risk, a |-> <<>>, intercepts |-> <<>>]

\* for i in range(1, len(obstacles)): the keys 1 .. len-1 are processed and
\* the last obstacle is left as it was handed in
init_obstacles(obstacles) ==
    [i \in 1..Len(obstacles) |->
        IF i <= Len(obstacles) - 1 THEN Preprocessed(obstacles[i])
        ELSE Unprocessed(obstacles[i])]

----------------------------------------------------------------------------
(* chance_constraints *)

\* the literal 0.5 of the three margins, in tenths
risk_used == 5

\* c1, c2, c3 = sqrt(2 a' Sigma a) * erfinv(1 - 2 * 0.5): erfinv(0) is 0
c_margin == IF 10 - 2 * risk_used = 0 THEN 0 ELSE 1

\* obstacle = {'vertices': [[5, 5], [6, 7], [7, 5.2]]}
HardVertices == << <<50, 50>>, <<60, 70>>, <<70, 52>> >>

\* a1 = [dy, -dx] of the first edge of the literal triangle, not normalised
\* (in tenths, hence the division by sqrt(100)); b1 its intercept
a1 ==
    LET dx == HardVertices[1][1] - HardVertices[2][1]
        dy == HardVertices[1][2] - HardVertices[2][2]
    IN  [v |-> <<dy, -dx>>, n2 |-> 100]
b1 == linregress(HardVertices[1], HardVertices[2])[2]

\* a2 = [1.8, 1]
a2 == [v |-> <<18, 10>>, n2 |-> 100]
b2(o) == o[1].intercepts[2]

\* a3 = obs[1]['a'][:,2] with its second entry negated; b3 = -intercepts[2]
a3(o) == [v |-> <<o[1].a[3].v[1], -(o[1].a[3].v[2])>>, n2 |-> o[1].a[3].n2]
b3(o) == RNeg(o[1].intercepts[3])

\* the reads obs[1]['intercepts'][1], obs[1]['a'][:,2] and
\* obs[1]['intercepts'][2] raise unless obstacle 1 was processed and has
\* three edges
ChanceRaises(o) == Len(o) < 1 \/ Len(o[1].intercepts) < 3

ChanceEdges(o) == << [a |-> a1, b |-> b1], [a |-> a2, b |-> b2(o)], [a |-> a3(o), b |-> b3(o)] >>

\* one constraint per horizon index i in 0..N and row e of self.flag, kept
\* under the key <<i, e>>
chance_constraints(o) ==
    [ie \in (0..N) \X (1..3) |->
        [a |-> ChanceEdges(o)[ie[2]].a, b |-> ChanceEdges(o)[ie[2]].b,
         c |-> c_margin, risk |-> risk_used]]

NoCons == <<>>

\* a3 is a view of the stored array, so the negation also lands in obs[1]['a']
ObsAfterChance(o) ==
    [o EXCEPT ![1].a[3] = a3(o)]

\* the rest of init_constraints after the loop, and of the constructor
FinishInit ==
    /\ pc = "finish"
    /\ LET o == init_obstacles(obsIn)
       IN  IF ChanceRaises(o)
           THEN /\ pc' = "error"
                /\ obs' = o
                /\ cons' = NoCons
           ELSE /\ pc' = "loop"
                /\ obs' = ObsAfterChance(o)
                /\ cons' = chance_constraints(o)
    /\ UNCHANGED <<fusionVars, inputVars, driverVars>>

----------------------------------------------------------------------------
(* The flags and the assembled problem, evaluated at a pose <<x, y, th>> *)

Sgn(x) == IF x > 0 THEN 1 ELSE IF x < 0 THEN -1 ELSE 0

\* the sign of A - B * sqrt(n) for integers A, B and n > 0
SgnSurd(A, B, n) ==
    IF A >= 0 /\ B <= 0 THEN (IF A = 0 /\ B = 0 THEN 0 ELSE 1)
    ELSE IF A <= 0 /\ B >= 0 THEN -1
    ELSE IF A > 0 THEN Sgn(A * A - B * B * n)
    ELSE Sgn(B * B * n - A * A)

\* the sign of mtimes(a', X[0:2, i]) - b - c at the pose p (c_margin is 0)
HalfPlaneSign(e, p) ==
    SgnSurd((e.a.v[1] * p[1] + e.a.v[2] * p[2]) * e.b[2], e.b[1], e.a.n2)

ConOf(cs, i, e) == cs[<<i, e>>]

\* if_else(a' p - b >= c, 1, -1)
FreshFlag(cs, i, e, p) == IF HalfPlaneSign(ConOf(cs, i, e), p) >= 0 THEN 1 ELSE -1
FreshFlags(cs, i, p) == <<FreshFlag(cs, i, 1, p), FreshFlag(cs, i, 2, p), FreshFlag(cs, i, 3, p)>>

\* casadi cumsum of a column
cumsum(f) == <<f[1], f[1] + f[2], f[1] + f[2] + f[3]>>

\* flag[:,i] = if_else(cumsum(flag[:,i]) == -3, flag_const, flag[:,i]): if_else
\* without short-circuit is if_else_zero(c, t) + if_else_zero(!c, f), entry by entry
EmittedFlags(cs, i, p, fc) ==
    LET f == FreshFlags(cs, i, p)
    IN  [e \in 1..3 |-> IF cumsum(f)[e] = -3 THEN fc[e] ELSE f[e]]

\* the constraints (a' X[0:2,i] - b) * flag[e,i] >= c of horizon index i
ChanceHolds(cs, i, p, fc) ==
    \A e \in 1..3 :
        HalfPlaneSign(ConOf(cs, i, e), p) * EmittedFlags(cs, i, p, fc)[e] >= 0

----------------------------------------------------------------------------
(* The dynamics constraints *)

\* self.r2_traj keeps the value 0 initVariables gives it
r2_traj == <<0, 0, 0>>

\* 100 times the argument of sqrt in init_constraints:
\* (X[0,k] - r2_traj[0,k])**2 + (X[1,k] - r2_traj[1,k]**2)
DistArg(p) == (p[1] - r2_traj[1]) * (p[1] - r2_traj[1]) + (10 * p[2] - r2_traj[2] * r2_traj[2])

\* sqrt(arg) >= maxComm_distance and sqrt(arg) < maxComm_distance; the sqrt of
\* a negative number is nan and every comparison with nan is false
SqrtGE(arg, m) == arg >= 0 /\ (m <= 0 \/ arg >= m * m)
SqrtLT(arg, m) == arg >= 0 /\ m > 0 /\ arg < m * m

\* the arm of the nested if_else that defines X[:,k+1] when X[:,k] = p
Selected(p, m) ==
    IF SqrtGE(DistArg(p), m) THEN "update_1"
    ELSE IF SqrtLT(DistArg(p), m) THEN "update_2"
    ELSE "0"

InRangeAt(Xs, j, m) == Selected(Xs[j + 1], m) = "update_2"
OutOfRangeAt(Xs, j, m) == Selected(Xs[j + 1], m) = "update_1"

\* the update applied at step j (0..N-2) of the trajectory Xs: the value
\* update_2 returned for that step when the problem was built
Applied(Xs, j, m, br) ==
    IF Selected(Xs[j + 1], m) = "update_2" THEN br[j + 1].fn ELSE Selected(Xs[j + 1], m)

\* Sample poses, one per region of the plane the flags and the range test
\* tell apart: away from the triangle, left of it, inside it, at the goal,
\* and where the argument of sqrt is negative
PoseA == <<0, 0, 0>>
PoseB == <<40, 60, 0>>
PoseC == <<60, 60, 0>>
PoseH == <<100, 101, 1>>
PoseZ == <<0, -10, 0>>
Poses == {PoseA, PoseB, PoseC, PoseH, PoseZ}

\* X[:,k+1] = X[:,k] + dT * U[:,k] (+ the offset of the update) with U inside
\* its box: a step stays in its region or enters a neighbouring one
Neighbours == { {PoseA, PoseB}, {PoseB, PoseC}, {PoseC, PoseH}, {PoseA, PoseZ} }
Reach(p) == { q \in Poses : q = p \/ {p, q} \in Neighbours }

NextPoses(p, i, m) ==
    IF i <= N - 2 /\ Selected(p, m) = "0" THEN {<<0, 0, 0>>} ELSE Reach(p)

InBox(p, lb, ub) == lb <= p[1] /\ p[1] <= ub /\ lb <= p[2] /\ p[2] <= ub

\* the trajectories X[:, i..N] from the pose p at index i that satisfy the
\* dynamics constraints and lie where ok allows (a sequence: Xs[j + 1] is
\* X[:, j])
RECURSIVE PathsFrom(_, _, _, _)
PathsFrom(p, i, m, ok) ==
    IF ~ok[<<i, p>>] THEN {}
    ELSE IF i = N THEN {<<p>>}
    ELSE UNION { { <<p>> \o s : s \in PathsFrom(q, i + 1, m, ok) } : q \in NextPoses(p, i, m) }

\* what opti.solve() can return: X[:,0] == r1_pos, the box, the dynamics and
\* the chance constraints hold
Solutions(start, m, lb, ub, cs, fc) ==
    LET ok == [ip \in (0..N) \X Poses |->
                 InBox(ip[2], lb, ub) /\ ChanceHolds(cs, ip[1], ip[2], fc)]
    IN  PathsFrom(start, 0, m, ok)

----------------------------------------------------------------------------
(* The cycle loop of __main__ *)

goal_pos == <<100, 100, 0>>

\* the .1 of the loop condition, in tenths
tolerance == 1

\* m.sqrt((curr_pos[0] - goal_pos[0]) ** 2 + (curr_pos[1] - goal_pos[1]) ** 2) > .1
LoopCondition(p) ==
    (p[1] - goal_pos[1]) * (p[1] - goal_pos[1])
      + (p[2] - goal_pos[2]) * (p[2] - goal_pos[2]) > tolerance * tolerance

\* a loop body that sets the parameter to pose[0] of the solution
NewR1Pos_Stale(Xs) == Xs[1]

\* the values the body of the loop assigns after sol = SMPC.opti.solve()
NewFlagConst(fl) == fl[1]
NewCurrPos(Xs) == Xs[2]
NewR1Pos(Xs) == Xs[2]

\* one pass of the loop body in which the solver returns a solution
Tick ==
    /\ pc = "loop"
    /\ LoopCondition(curr_pos)
    /\ \E Xs \in Solutions(r1_pos, maxComm_distance, lb_state, ub_state, cons, flag_const) :
         /\ X' = Xs
         /\ flag' = [j \in 1..(N + 1) |-> EmittedFlags(cons, j - 1, Xs[j], flag_const)]
         /\ flag_const' = NewFlagConst(flag')
         /\ curr_pos' = NewCurrPos(Xs)
         /\ r1_pos' = NewR1Pos(Xs)
         /\ contact_seen' = (contact_seen \/ \E j \in 0..(N - 2) : InRangeAt(Xs, j, maxComm_distance))
    /\ solved' = IF solved < 2 THEN solved + 1 ELSE 2
    /\ pc' = "loop"
    /\ UNCHANGED <<fusionVars, inputVars, obs, cons>>

\* a failed solve after which a pose of the previous trajectory is executed
SolveFail_Stale ==
    /\ pc = "loop"
    /\ LoopCondition(curr_pos)
    /\ pc' = "failed"
    /\ curr_pos' = (IF solved >= 1 THEN X[3] ELSE goal_pos)
    /\ UNCHANGED <<fusionVars, inputVars, obs, cons>>
    /\ UNCHANGED <<r1_pos, flag_const, X, flag, solved, contact_seen>>

\* opti.solve() raises (no convergence) and nothing catches it
SolveFail ==
    /\ pc = "loop"
    /\ LoopCondition(curr_pos)
    /\ pc' = "failed"
    /\ UNCHANGED <<fusionVars, inputVars, obs, cons, driverVars>>

\* a loop that also stops after two solves
ExitLoop_Cap ==
    /\ pc = "loop"
    /\ (~LoopCondition(curr_pos) \/ solved >= 2)
    /\ pc' = "done"
    /\ UNCHANGED <<fusionVars, inputVars, obs, cons, driverVars>>

\* the loop condition is false
ExitLoop ==
    /\ pc = "loop"
    /\ ~LoopCondition(curr_pos)
    /\ pc' = "done"
    /\ UNCHANGED <<fusionVars, inputVars, obs, cons, driverVars>>

----------------------------------------------------------------------------
(* The program: construction with the inputs of __main__ and a few others *)

\* obs of __main__ (risk in tenths), a single obstacle, and a first obstacle
\* that is not the literal triangle of chance_constraints
MainObs == << [vertices |-> HardVertices, risk |-> 1], [vertices |-> HardVertices, risk |-> 9] >>
OneObs == << [vertices |-> HardVertices, risk |-> 1] >>
OtherObs == << [vertices |-> << <<20, 20>>, <<30, 40>>, <<40, 22>> >>, risk |-> 1],
               [vertices |-> HardVertices, risk |-> 1] >>
ObsInputs == {MainObs, OneObs, OtherObs}

\* covariance parameters that start at the identity
CovParamInit_Eye == Eye2

\* the value initVariables gives r1_pos_cov and r2_pos_cov
CovParamInit == Zero2

\* the value __init__ gives self.P12
P12Init == Zero2

\* the value initVariables gives flag_const
FlagConstInit == <<-1, -1, -1>>

NoX == <<>>

Init ==
    /\ pc = "u1"
    /\ k = 0
    /\ P12 = P12Init
    /\ first_contact = FALSE
    /\ r1_pos_cov = [j \in 0..(N - 1) |-> CovParamInit]
    /\ r2_pos_cov = [j \in 0..(N - 1) |-> CovParamInit]
    /\ R12 \in {Zero2, Eye2}
    /\ maxComm_distance \in {-100, 50}
    /\ branch = <<>>
    /\ ret = [fn |-> "none", off |-> RVec(<<0, 0>>), singular |-> FALSE]
    /\ obsIn \in ObsInputs
    /\ obs = <<>>
    /\ cons = NoCons
    /\ \E b \in {<<-200, 200>>, <<200, -200>>} : lb_state = b[1] /\ ub_state = b[2]
    /\ curr_pos \in {PoseA, PoseC, PoseH}
    /\ r1_pos = curr_pos
    /\ flag_const = FlagConstInit
    /\ X = NoX
    /\ flag = NoX
    /\ solved = 0
    /\ contact_seen = FALSE

Next ==
    \/ CallUpdate1
    \/ CallUpdate2
    \/ FinishInit
    \/ Tick
    \/ SolveFail
    \/ ExitLoop

Spec == Init /\ [][Next]_vars

----------------------------------------------------------------------------
(* The fusion functions applied, in horizon order, to bounded covariance     *)
(* inputs                                                                    *)

\* symmetric positive semi-definite matrices ("must be positive semi-definite")
CovEntries == { t \in (0..MaxCov) \X (0..MaxCov) \X (0..MaxCov) : t[1] * t[3] >= t[2] * t[2] }
CovVals == { MatI(t[1], t[2], t[2], t[3]) : t \in CovEntries }
R12Vals == { MatI(r, 0, 0, r) : r \in 0..MaxCov }
P12Vals == { MatI(t[1], t[2], t[3], t[4]) : t \in (0..1) \X (0..1) \X (0..1) \X (0..1) }

InitFusion ==
    /\ pc = "u1"
    /\ k = 0
    /\ first_contact \in BOOLEAN
    /\ P12 \in (IF first_contact THEN P12Vals ELSE {P12Init})
    /\ \E c \in CovVals : r1_pos_cov = [j \in 0..(N - 1) |-> c]
    /\ \E c \in CovVals : r2_pos_cov = [j \in 0..(N - 1) |-> c]
    /\ R12 \in R12Vals
    /\ maxComm_distance = 50
    /\ branch = <<>>
    /\ ret = [fn |-> "none", off |-> RVec(<<0, 0>>), singular |-> FALSE]
    /\ obsIn = MainObs
    /\ obs = <<>>
    /\ cons = NoCons
    /\ lb_state = -200
    /\ ub_state = 200
    /\ curr_pos = PoseA
    /\ r1_pos = PoseA
    /\ flag_const = FlagConstInit
    /\ X = NoX
    /\ flag = NoX
    /\ solved = 0
    /\ contact_seen = FALSE

FusionUpdate1 == Len(branch) < MaxFusionSteps /\ CallUpdate1
FusionUpdate2 == Len(branch) < MaxFusionSteps /\ CallUpdate2

NextFusion ==
    \/ FusionUpdate1
    \/ FusionUpdate2

SpecFusion == InitFusion /\ [][NextFusion]_vars

----------------------------------------------------------------------------
(* init_obstacles on bounded polygon rings *)

\* most vertices of a ring, and the largest coordinate of a vertex
MaxRing == 3
MaxCoord == 2

GridPoints == (0..MaxCoord) \X (0..MaxCoord)
RECURSIVE RingsOfLen(_)
RingsOfLen(n) ==
    IF n = 0 THEN {<<>>}
    ELSE { Append(r, q) : r \in RingsOfLen(n - 1), q \in GridPoints }
RingsUpTo(n) == UNION { RingsOfLen(i) : i \in 0..n }

\* the keys range(1, len(obstacles)) visits
ProcessedKeys(obstacles) == 1..(Len(obstacles) - 1)

\* some call of linregress in init_obstacles raises
InitObstaclesRaises(obstacles, strict) ==
    \E i \in ProcessedKeys(obstacles) :
        \E j \in 1..Len(EdgeEnds(obstacles[i].vertices)) :
            LinregressRaises(EdgeEnds(obstacles[i].vertices)[j][1],
                             EdgeEnds(obstacles[i].vertices)[j][2], strict)

\* a_vectors = np.empty((2, n)) is filled only by the loop over the edges:
\* for a ring of one vertex the loop is empty and the column keeps whatever
\* the memory held
UninitNormals == { [v |-> <<0, 0>>, n2 |-> 0], [v |-> <<1, 0>>, n2 |-> 1] }
WithUninit(o, g) ==
    [i \in 1..Len(o) |->
        IF i \in ProcessedKeys(o) /\ Len(o[i].vertices) = 1
        THEN [o[i] EXCEPT !.a = <<g>>]
        ELSE o[i]]

InitObstaclesInit ==
    /\ pc = "obstacles"
    /\ \E r \in RingsUpTo(MaxRing) :
         obsIn \in { << [vertices |-> r, risk |-> 1] >>,
                     << [vertices |-> r, risk |-> 1], MainObs[2] >> }
    /\ obs = <<>>
    /\ k = 0
    /\ first_contact = FALSE
    /\ P12 = P12Init
    /\ r1_pos_cov = [j \in 0..(N - 1) |-> CovParamInit]
    /\ r2_pos_cov = [j \in 0..(N - 1) |-> CovParamInit]
    /\ R12 = Zero2
    /\ maxComm_distance = 50
    /\ branch = <<>>
    /\ ret = [fn |-> "none", off |-> RVec(<<0, 0>>), singular |-> FALSE]
    /\ cons = NoCons
    /\ lb_state = -200
    /\ ub_state = 200
    /\ curr_pos = PoseA
    /\ r1_pos = PoseA
    /\ flag_const = FlagConstInit
    /\ X = NoX
    /\ flag = NoX
    /\ solved = 0
    /\ contact_seen = FALSE

\* init_obstacles runs to its end and assigns self.obs
InitObstaclesReturn ==
    /\ pc = "obstacles"
    /\ \E strict \in BOOLEAN, g \in UninitNormals :
         /\ ~InitObstaclesRaises(obsIn, strict)
         /\ obs' = WithUninit(init_obstacles(obsIn), g)
    /\ pc' = "preprocessed"
    /\ UNCHANGED <<fusionVars, inputVars, cons, driverVars>>

\* a call of linregress raises and self.obs is not assigned
InitObstaclesRaise ==
    /\ pc = "obstacles"
    /\ \E strict \in BOOLEAN : InitObstaclesRaises(obsIn, strict)
    /\ pc' = "error"
    /\ UNCHANGED <<fusionVars, inputVars, obs, cons, driverVars>>

NextObstacles ==
    \/ InitObstaclesReturn
    \/ InitObstaclesRaise

SpecObstacles == InitObstaclesInit /\ [][NextObstacles]_vars

----------------------------------------------------------------------------
(* Properties *)

Constructed == pc \in {"loop", "done", "failed"}
TickStep == pc = "loop" /\ pc' = "loop"
AllViolated(i, p) == FreshFlags(cons, i, p) = <<-1, -1, -1>>
InRangeX(j) == InRangeAt(X, j, maxComm_distance)
OutOfRangeX(j) == OutOfRangeAt(X, j, maxComm_distance)
AppliedX(j) == Applied(X, j, maxComm_distance, branch)

\* C1: in every solve after the first, at every horizon index i where the
\* fresh signs of all three edges are -1, the flags emitted at i are the flags
\* the previous solve recorded at the same index i.
C1_HysteresisSameIndex ==
    [][ (TickStep /\ solved >= 1) =>
          \A i \in 0..N : AllViolated(i, X'[i + 1]) => flag'[i + 1] = flag[i + 1] ]_vars

\* C2: in a returned trajectory an out-of-range step applies update_1 (no
\* fusion), the first in-range step applies the first-contact update
\* (update_3), and an in-range step that follows an in-range step applies the
\* steady-contact update.
C2_FirstContactOnce ==
    solved >= 1 =>
      \A j \in 0..(N - 2) :
        /\ OutOfRangeX(j) => AppliedX(j) = "update_1"
        /\ (InRangeX(j) /\ \A i \in 0..(j - 1) : ~InRangeX(i)) => AppliedX(j) = "update_3"
        /\ (j >= 1 /\ InRangeX(j) /\ InRangeX(j - 1)) => AppliedX(j) = "update_2"

\* C3: P12 is zero as long as no step of any returned trajectory was in
\* range, and a step that changes P12 is a solve whose trajectory has a step
\* in range.
C3_P12ZeroUntilInRange ==
    /\ [](~contact_seen => P12 = Zero2)
    /\ [][ P12' # P12 =>
             (TickStep /\ \E j \in 0..(N - 2) : InRangeAt(X', j, maxComm_distance)) ]_vars

\* C3 witness: the updates have run, a trajectory was returned, none of its
\* steps was in range, and P12 is zero
C3_Witness ==
    /\ solved >= 1
    /\ ~contact_seen
    /\ first_contact
    /\ Len(branch) = N - 1
    /\ P12 = Zero2

\* the vectors a.v / sqrt(a.n2) and b.v / sqrt(b.n2) are equal
SameNormal(a, b) ==
    \A c \in 1..2 :
        /\ Sgn(a.v[c]) = Sgn(b.v[c])
        /\ a.v[c] * a.v[c] * b.n2 = b.v[c] * b.v[c] * a.n2

\* C4: the assembled problem holds, for every edge of every obstacle handed
\* in and every horizon index, a constraint whose normal and offset are the
\* ones init_obstacles derives for that edge.
C4_EveryEdgeConstrained ==
    Constructed =>
      \A o \in 1..Len(obsIn) : \A j \in 1..Len(obsIn[o].vertices) : \A i \in 0..N :
        \E e \in 1..3 :
          /\ Len(init_obstacles(obsIn)[o].a) >= j
          /\ SameNormal(cons[<<i, e>>].a, init_obstacles(obsIn)[o].a[j])
          /\ cons[<<i, e>>].b = init_obstacles(obsIn)[o].intercepts[j]

\* C5: pose[0] of every solution is the current-pose parameter, after every
\* solve the parameter and curr_pos are pose[1] of the solution, and so
\* pose[0] of the next solution is pose[1] of this one.
C5_PoseChain ==
    /\ [](solved >= 1 => (r1_pos = X[2] /\ curr_pos = X[2]))
    /\ [][ TickStep => (X'[1] = r1_pos /\ (solved >= 1 => X'[1] = X[2])) ]_vars

\* C5 witness: two solves have returned and the vehicle moved
C5_Witness == solved = 2 /\ X[1] # X[2] /\ r1_pos = X[2]

\* a step in range that follows an out-of-range step that follows contact
AfterLostContact(j) ==
    /\ InRangeX(j)
    /\ OutOfRangeX(j - 1)
    /\ \E i \in 0..(j - 2) : InRangeX(i)

C7_FailedSolveExecutesNothing ==
    /\ [][ (pc = "loop" /\ pc' = "failed") =>
             /\ curr_pos' = curr_pos
             /\ r1_pos' = r1_pos
             /\ flag_const' = flag_const
             /\ X' = X
             /\ flag' = flag ]_vars
    /\ [](pc = "failed" => ~ENABLED Next)

\* C7 witness: a solve failed after an earlier one had returned a trajectory
C7_Witness == pc = "failed" /\ solved >= 1 /\ curr_pos = X[2]

C9_SetupRejectsBadConfiguration ==
    /\ Constructed =>
         /\ \A o \in 1..Len(obsIn) : 0 < obsIn[o].risk /\ obsIn[o].risk < 5
         /\ lb_state <= ub_state
    /\ \A ie \in DOMAIN cons : cons[ie].risk < 5

\* the matrix S of the call of update_2 that is about to run
PendingS ==
    IF TakesUpdate3(first_contact)
    THEN update_3_S(r1_pos_cov[k + 1], r2_pos_cov[k + 1], R12)
    ELSE update_2_S(r1_pos_cov[k + 1], r2_pos_cov[k + 1], R12, P12)

\* C10: in both branches, when S is singular the call of update_2 completes,
\* returns a next state, and what it returns and stores is what the formulas
\* give with the zero matrix in place of the inverse of S: no correction of
\* the position, and P12 = P11 * 0 * P22.
C10_SingularFallback ==
    [][ (pc = "u2" /\ Singular(PendingS)) =>
          /\ pc' \in {"u1", "finish"}
          /\ ret'.fn = (IF TakesUpdate3(first_contact) THEN "update_3" ELSE "update_2")
          /\ ret'.singular
          /\ ret'.off = <<RInt(0), RInt(0)>>
          /\ P12' = Zero2 ]_vars

\* C10 witness: the steady-contact branch ran with a singular S and a
\* covariance that is not zero
C10_Witness ==
    /\ ret.fn = "update_2"
    /\ ret.singular
    /\ r1_pos_cov[0] # Zero2
    /\ P12 = Zero2

\* 100 times the squared Euclidean distance between the pose p and the other
\* agent's position
EuclidSq(p) ==
    (p[1] - r2_traj[1]) * (p[1] - r2_traj[1]) + (p[2] - r2_traj[2]) * (p[2] - r2_traj[2])
EuclidGE(p, m) == m <= 0 \/ EuclidSq(p) >= m * m

\* C13: at every step k of a returned trajectory exactly one fusion branch
\* defines pose[k+1]: the out-of-range branch when the Euclidean distance to
\* the other agent is >= maxComm_distance, an in-range branch when it is
\* smaller, and never neither of them.
C13_BranchByEuclideanDistance ==
    solved >= 1 =>
      \A j \in 0..(N - 2) :
        /\ Selected(X[j + 1], maxComm_distance) # "0"
        /\ (Selected(X[j + 1], maxComm_distance) = "update_1")
             <=> EuclidGE(X[j + 1], maxComm_distance)

\* the steady-contact reference: P12 - (P11 - P12) * S^-1 * (P12 - P22) and
\* P11 - K * (P11 - P12^T) with K = (P11 - P12) * S^-1
RefSteadyS(P11, P22, R, P12o) == MAdd(MAdd(MSub(MSub(P11, P12o), MT(P12o)), P22), R)
RefSteadyK(P11, P22, R, P12o) ==
    mtimes(MSub(P11, P12o), S_inv_of(RefSteadyS(P11, P22, R, P12o)))
RefSteadyP11(P11, P22, R, P12o) ==
    MSub(P11, mtimes(RefSteadyK(P11, P22, R, P12o), MSub(P11, MT(P12o))))
RefSteadyP12(P11, P22, R, P12o) ==
    MSub(P12o, mtimes(RefSteadyK(P11, P22, R, P12o), MSub(P12o, P22)))

\* a call of update_2 that takes the steady-contact branch
SteadyStep == pc = "u2" /\ ~TakesUpdate3(first_contact) /\ pc' # "u2"

\* C12: a steady-contact update writes P11 - K * (P11 - P12^T) as the
\* covariance of step k+1 and stores P12 - (P11 - P12) * S^-1 * (P12 - P22),
\* with S = P11 - P12 - P12^T + P22 + R12, K = (P11 - P12) * S^-1 and the P12
\* from before the update.
C12_SteadyContactReference ==
    [][ SteadyStep =>
          /\ r1_pos_cov'[k + 1] =
               RefSteadyP11(r1_pos_cov[k + 1], r2_pos_cov[k + 1], R12, P12)
          /\ P12' = RefSteadyP12(r1_pos_cov[k + 1], r2_pos_cov[k + 1], R12, P12) ]_vars

\* C15: when a call of update_2 (either branch) finds S singular, the fused
\* position it returns is the nominal prediction (offset zero), the
\* covariance written for step k+1 is the one that was there before, and the
\* stored P12 is the zero matrix whatever it was before.
C15_SingularFallbackOutputs ==
    [][ (pc = "u2" /\ Singular(PendingS) /\ pc' # "u2") =>
          /\ ret'.off = <<RInt(0), RInt(0)>>
          /\ r1_pos_cov'[k + 1] = r1_pos_cov[k + 1]
          /\ P12' = Zero2 ]_vars

\* C15 witness: a call found S singular with a covariance that is not zero,
\* wrote that covariance back for its step (column 0 is never written and
\* holds the same input), and left P12 zero
C15_Witness ==
    /\ Len(branch) >= 1
    /\ branch[Len(branch)].singular
    /\ ret.off = <<RInt(0), RInt(0)>>
    /\ r1_pos_cov[k] # Zero2
    /\ r1_pos_cov[k] = r1_pos_cov[0]
    /\ pc \in {"u1", "finish"}

\* a ring with fewer than 3 vertices or with two consecutive vertices
\* (the last and the first included) that coincide
Degenerate(ring) ==
    \/ Len(ring) < 3
    \/ \E j \in 1..Len(ring) : ring[j] = ring[(j % Len(ring)) + 1]

\* C11: init_obstacles fails exactly when some ring handed in is degenerate,
\* and when it succeeds every ring has as many normals and as many offsets
\* as it has vertices.
C11_GeometryErrorAndEdgeCount ==
    /\ (pc = "error") => \E o \in 1..Len(obsIn) : Degenerate(obsIn[o].vertices)
    /\ (pc = "preprocessed") =>
         /\ \A o \in 1..Len(obsIn) : ~Degenerate(obsIn[o].vertices)
         /\ \A o \in 1..Len(obsIn) :
              /\ Len(obs[o].a) = Len(obsIn[o].vertices)
              /\ Len(obs[o].intercepts) = Len(obsIn[o].vertices)

\* C14: for every ring that is not degenerate, every normal init_obstacles
\* stores (the one of the wrap-around edge included) is perpendicular to the
\* direction (dx, dy) of its edge and has length 1.
C14_NormalPerpendicularUnit ==
    (pc = "preprocessed") =>
      \A o \in 1..Len(obsIn) :
        ~Degenerate(obsIn[o].vertices) =>
          \A j \in 1..Len(obs[o].a) :
            LET e == EdgeEnds(obsIn[o].vertices)[j]
                dx == e[1][1] - e[2][1]
                dy == e[1][2] - e[2][2]
                a == obs[o].a[j]
            IN  /\ a.v[1] * dx + a.v[2] * dy = 0
                /\ a.n2 > 0
                /\ a.v[1] * a.v[1] + a.v[2] * a.v[2] = a.n2

====
